---------------------------- MODULE Spec2Model ----------------------------
(***************************************************************************)
(* Model of the C3S soil moisture reader (c3s_sm_reader):                  *)
(*   - C3S_Nc_Img_Stack.tstamps_for_daterange   (interface.py)             *)
(*   - C3S_Nc_Img_Stack._parse_filename          (interface.py)             *)
(*   - C3SImg.read                               (interface.py)             *)
(*   - reshuffle                                 (reshuffle.py)             *)
(* Two specifications share the module:                                    *)
(*   SpecDaterange : one call of tstamps_for_daterange                     *)
(*   Spec          : one run of reshuffle, including the construction of   *)
(*                   the image stack and the image read of the start date  *)
(***************************************************************************)
EXTENDS Integers, Sequences, FiniteSets, TLC

VARIABLES
    \* ---- tstamps_for_daterange ----
    temp_res,       \* self.fname_args['temp_res']
    start_date,     \* argument start_date
    end_date,       \* argument end_date
    timestamps,     \* local list timestamps
    tpc,            \* position in tstamps_for_daterange
    \* ---- reshuffle ----
    tree,           \* files of input_root in os.walk order
    parameters,     \* argument parameters, as passed by the caller
    land_points,    \* argument land_points
    startdate,      \* argument startdate
    outdir,         \* does outputpath exist
    made_outdir,    \* os.makedirs(outputpath) was called
    n_opened,       \* number of source files opened so far
    pc,             \* position in reshuffle
    err,            \* exception that ended the run, "none" if none
    fname_args,     \* input_dataset.fname_args
    grid,           \* subset_flag of the grid passed on
    ds_open,        \* number of open netCDF Dataset handles
    todo,           \* C3SImg.read: parameters still to loop over
    param_img,      \* C3SImg.read: param_img
    data,           \* reshuffle: data, the Image read for startdate
    calc_called,    \* reshuffler.calc() was entered
    cells_written   \* some Cell file has been written below outputpath

varsA == <<temp_res, start_date, end_date, timestamps, tpc>>
varsB == <<tree, parameters, land_points, startdate, outdir, made_outdir,
           n_opened, pc, err,
           fname_args, grid, ds_open, todo, param_img, data, calc_called,
           cells_written>>
vars == <<varsA, varsB>>

(***************************************************************************)
(* Bounds of the model                                                     *)
(***************************************************************************)
\* how many whole steps the end date lies after the start date, at most
MaxSteps == 4
\* how many further days the end date lies after the last whole step, at most
MaxExtraDays == 11
\* how many files the input tree holds, at most
MaxFiles == 3

Years == 1991..1992
StartDays == {1, 15, 28, 29, 30, 31}

Min(a, b) == IF a <= b THEN a ELSE b

(***************************************************************************)
(* Dates: datetime values [y, m, d, t], t the minute of the day            *)
(***************************************************************************)
IsLeap(y) == (y % 4 = 0 /\ y % 100 # 0) \/ y % 400 = 0

DaysInMonth(y, m) ==
    IF m = 2 THEN (IF IsLeap(y) THEN 29 ELSE 28)
    ELSE IF m \in {4, 6, 9, 11} THEN 30 ELSE 31

\* datetime(y, m, d): midnight
Date(y, m, d) == [y |-> y, m |-> m, d |-> d, t |-> 0]

\* datetime(y, m, d, hour, minute)
DateTime(y, m, d, t) == [y |-> y, m |-> m, d |-> d, t |-> t]

\* datetime comparison  a <= b,  a < b
DateLE(a, b) ==
    \/ a.y < b.y
    \/ a.y = b.y /\ a.m < b.m
    \/ a.y = b.y /\ a.m = b.m /\ a.d < b.d
    \/ a.y = b.y /\ a.m = b.m /\ a.d = b.d /\ a.t <= b.t

DateLT(a, b) == DateLE(a, b) /\ a # b

\* date + relativedelta(days=+n), for n of at most 28 days: the days run on
\* into the next month, and from December into the next year
AddDays(dt, n) ==
    LET dim == DaysInMonth(dt.y, dt.m)
    IN  IF dt.d + n <= dim THEN DateTime(dt.y, dt.m, dt.d + n, dt.t)
        ELSE IF dt.m < 12 THEN DateTime(dt.y, dt.m + 1, dt.d + n - dim, dt.t)
        ELSE DateTime(dt.y + 1, 1, dt.d + n - dim, dt.t)

\* date + relativedelta(months=+1): the month advances, the year carries,
\* the day is clipped to the last day of the new month, the time stays
AddMonth(dt) ==
    LET y2 == IF dt.m = 12 THEN dt.y + 1 ELSE dt.y
        m2 == IF dt.m = 12 THEN 1 ELSE dt.m + 1
    IN  DateTime(y2, m2, Min(dt.d, DaysInMonth(y2, m2)), dt.t)

Resolutions == {"MONTHLY", "DAILY", "DEKADAL"}

\* a DEKADAL step that advances one day only
NextDate_DekadalOneDay(res, dt) ==
    IF res = "MONTHLY" THEN AddMonth(dt)
    ELSE IF res = "DAILY" THEN AddDays(dt, 1)
    ELSE AddDays(dt, 1)

\* the lambda next selected by temp_res
NextDate(res, dt) ==
    IF res = "MONTHLY" THEN AddMonth(dt)
    ELSE IF res = "DAILY" THEN AddDays(dt, 1)
    ELSE AddDays(dt, 10)

\* a loop that stops before the end date itself
LoopCond_Strict(res, ts, e) == DateLT(NextDate(res, ts[Len(ts)]), e)

\* while next(timestamps[-1]) <= end_date
LoopCond(res, ts, e) == DateLE(NextDate(res, ts[Len(ts)]), e)

RECURSIVE Iter(_, _, _)
Iter(res, dt, k) == IF k = 0 THEN dt ELSE Iter(res, NextDate(res, dt), k - 1)

\* mkdate: 'YYYY-MM-DD' is midnight, 'YYYY-MM-DDTHH:MM' any minute of the day
TimesOfDay == {0, 750}

StartDates ==
    { dt \in { DateTime(y, m, d, t) :
                 y \in Years, m \in 1..12, d \in StartDays, t \in TimesOfDay } :
         dt.d <= DaysInMonth(dt.y, dt.m) }

\* the end dates tried for a start date: some whole steps later, plus some
\* days, at either time of the day (which may lie before the start date)
EndDates(res, s) ==
    IF res \in Resolutions
    THEN { [AddDays(Iter(res, s, k), r) EXCEPT !.t = t] :
              k \in 0..MaxSteps, r \in 0..MaxExtraDays, t \in TimesOfDay }
    ELSE { s }

NoDate == Date(0, 0, 0)

IdleA ==
    /\ temp_res = "none"
    /\ start_date = NoDate
    /\ end_date = NoDate
    /\ timestamps = << >>
    /\ tpc = "idle"

InitA ==
    /\ temp_res \in Resolutions \cup {"HOURLY"}
    /\ start_date \in StartDates
    /\ end_date \in EndDates(temp_res, start_date)
    /\ timestamps = << >>
    /\ tpc = "call"

\* lines 318-323, 327: a supported resolution selects next; timestamps = [start_date]
SelectNext ==
    /\ tpc = "call"
    /\ temp_res \in Resolutions
    /\ timestamps' = <<start_date>>
    /\ tpc' = "loop"
    /\ UNCHANGED <<temp_res, start_date, end_date, varsB>>

\* lines 324-325: raise NotImplementedError
RaiseNotImplemented ==
    /\ tpc = "call"
    /\ temp_res \notin Resolutions
    /\ tpc' = "raised"
    /\ UNCHANGED <<temp_res, start_date, end_date, timestamps, varsB>>

\* lines 328-329: one iteration of the while loop
LoopAppend ==
    /\ tpc = "loop"
    /\ LoopCond(temp_res, timestamps, end_date)
    /\ timestamps' = Append(timestamps, NextDate(temp_res, timestamps[Len(timestamps)]))
    /\ UNCHANGED <<temp_res, start_date, end_date, tpc, varsB>>

\* line 331: the loop condition is false, return timestamps
ReturnTimestamps ==
    /\ tpc = "loop"
    /\ ~LoopCond(temp_res, timestamps, end_date)
    /\ tpc' = "returned"
    /\ UNCHANGED <<temp_res, start_date, end_date, timestamps, varsB>>

NextA ==
    \/ SelectNext
    \/ RaiseNotImplemented
    \/ LoopAppend
    \/ ReturnTimestamps

(***************************************************************************)
(* File names.  A name is held as the pieces the filename template cuts    *)
(* it into: the named fields and the literal text between them.            *)
(***************************************************************************)
Digit(n) == << "0", "1", "2", "3", "4", "5", "6", "7", "8", "9" >>[n + 1]

\* strftime with datetime_format "%Y%m%d": eight zero-padded digits
FormatDate(dt) ==
    << Digit(dt.y \div 1000), Digit((dt.y \div 100) % 10),
       Digit((dt.y \div 10) % 10), Digit(dt.y % 10),
       Digit(dt.m \div 10), Digit(dt.m % 10),
       Digit(dt.d \div 10), Digit(dt.d % 10) >>

\* the literal '{datetime}' that stands for the datetime field
Placeholder == << "{datetime}" >>

\* c3s_filename_template('default'): the literal text between the fields
TemplMid == "-SOILMOISTURE-L3S-"
TemplZeros == "000000-"
TemplExt == ".0.0.nc"

FileName(prod, mid, dtype, stype, tres, dtime, zeros, subp, vers, ext) ==
    [product |-> prod, mid |-> mid, data_type |-> dtype,
     sensor_type |-> stype, temp_res |-> tres, datetime |-> dtime,
     zeros |-> zeros, subprod |-> subp, version |-> vers, ext |-> ext]

Args(product, data_type, sensor_type, tres, dtime, subprod, version) ==
    [product |-> product, data_type |-> data_type, sensor_type |-> sensor_type,
     temp_res |-> tres, datetime |-> dtime, subprod |-> subprod,
     version |-> version]

\* None
NoArgs == Args("", "", "", "", << >>, "", "")

\* parse(template, f): None unless the literal text of the template is found
\* in f between the fields, else the named fields of f
Parse(f) ==
    IF f.mid = TemplMid /\ f.zeros = TemplZeros /\ f.ext = TemplExt
    THEN Args(f.product, f.data_type, f.sensor_type, f.temp_res, f.datetime,
              f.subprod, f.version)
    ELSE NoArgs

\* a walk that gives up when the first file does not fit the template
RECURSIVE ParseFilename_FirstOnly(_)
ParseFilename_FirstOnly(files) ==
    IF files = << >> THEN NoArgs
    ELSE IF Parse(Head(files).name) = NoArgs THEN NoArgs
    ELSE [Parse(Head(files).name) EXCEPT !.datetime = Placeholder]

\* _parse_filename: the first file of the walk that fits the template gives
\* the fields, its datetime overwritten by the placeholder; NoArgs stands for
\* the IOError raised when the walk ends
RECURSIVE ParseFilename(_)
ParseFilename(files) ==
    IF files = << >> THEN NoArgs
    ELSE IF Parse(Head(files).name) = NoArgs THEN ParseFilename(Tail(files))
    ELSE [Parse(Head(files).name) EXCEPT !.datetime = Placeholder]

\* template.format(**self.fname_args), then the datetime placeholder filled
\* with the formatted timestamp: the name of the file expected for dt
ExpectedName(args, dt) ==
    FileName(args.product, TemplMid, args.data_type, args.sensor_type,
             args.temp_res, FormatDate(dt), TemplZeros, args.subprod,
             args.version, TemplExt)

(***************************************************************************)
(* Inputs of a run                                                         *)
(***************************************************************************)
Coordinates == {"lat", "lon", "time"}

\* ds.variables.keys() of a source file, in file order
FileVariables ==
    { << "lat", "lon", "time", "sm" >>,
      << "lat", "lon", "time", "sm", "sm_uncertainty" >> }

DayA == Date(1991, 8, 5)
DayB == Date(1991, 8, 6)

C3SName(dt, subprod) ==
    FileName("C3S", TemplMid, "SSMS", "ACTIVE", "DAILY", FormatDate(dt),
             TemplZeros, subprod, "v201801", TemplExt)

\* a file of the tree that is no image of the product
OtherName ==
    FileName("grid", "", "", "", "", << >>, "", "", "", ".nc")

\* an image name whose literal text differs from the template (no midnight)
NearMissName ==
    [C3SName(DayA, "TCDR") EXCEPT !.zeros = "120000-"]

ImageNames == { C3SName(DayA, "TCDR"), C3SName(DayB, "TCDR"),
                C3SName(DayA, "ICDR") }

Names == ImageNames \cup { OtherName, NearMissName }

Files ==
    [name : ImageNames, vars : FileVariables] \cup
    [name : {NearMissName}, vars : { << "lat", "lon", "time", "sm" >> }] \cup
    [name : {OtherName}, vars : { << >> }]

Range(seq) == { seq[i] : i \in 1..Len(seq) }

\* the trees: up to MaxFiles files, no name twice
Trees ==
    UNION { { t \in [1..n -> Files] :
                \A i, j \in 1..n : i # j => t[i].name # t[j].name }
            : n \in 0..Min(MaxFiles, Cardinality(Names)) }

NoneParam == "<None>"

\* parameters as the caller passes them: one name (or None), or a list
ParamInputs ==
    { [islist |-> FALSE, items |-> << NoneParam >>],
      [islist |-> FALSE, items |-> << "sm" >>],
      [islist |-> TRUE, items |-> << "sm" >>],
      [islist |-> TRUE, items |-> << "sm", "sm_uncertainty" >>],
      [islist |-> TRUE, items |-> << "sm_uncertainty" >>],
      [islist |-> TRUE, items |-> << "lat", "sm" >>],
      [islist |-> TRUE, items |-> << "flag", "sm" >>] }

\* C3SImg.__init__: if not isinstance(parameters, list): parameters = [parameters]
Normalise(p) == IF p.islist THEN p.items ELSE << p.items[1] >>

NoImage == [present |-> FALSE, img |-> {}]

\* the files of the tree that carry the name expected for dt
FilesFor(args, dt) == { f \in Range(tree) : f.name = ExpectedName(args, dt) }

InitB ==
    /\ tree \in Trees
    /\ parameters \in ParamInputs
    /\ land_points \in BOOLEAN
    /\ startdate \in {DayA, DayB}
    /\ outdir \in BOOLEAN
    /\ made_outdir = FALSE
    /\ n_opened = 0
    /\ pc = "start"
    /\ err = "none"
    /\ fname_args = NoArgs
    /\ grid = "none"
    /\ ds_open = 0
    /\ todo = << >>
    /\ param_img = {}
    /\ data = NoImage
    /\ calc_called = FALSE
    /\ cells_written = FALSE

\* the arguments of the run, and the state no step of the run touches
inputs == <<tree, parameters, land_points, startdate, varsA>>

\* reshuffle, lines 75-78: the grid is the land subset or the full grid
SelectGrid ==
    /\ pc = "start"
    /\ grid' = IF land_points THEN "land" ELSE "full"
    /\ pc' = "stack"
    /\ UNCHANGED <<inputs, outdir, made_outdir, n_opened, err, fname_args,
                   ds_open, todo, param_img, data, calc_called, cells_written>>

\* reshuffle, line 80: the image stack is built, a file fits the template
StackResolved ==
    /\ pc = "stack"
    /\ ParseFilename(tree) # NoArgs
    /\ fname_args' = ParseFilename(tree)
    /\ pc' = "makedirs"
    /\ UNCHANGED <<inputs, outdir, made_outdir, n_opened, err, grid, ds_open,
                   todo, param_img, data, calc_called, cells_written>>

\* reshuffle, line 80: no file fits the template, _parse_filename raises
StackNoMatch ==
    /\ pc = "stack"
    /\ ParseFilename(tree) = NoArgs
    /\ err' = "NoMatchingFile"
    /\ pc' = "failed"
    /\ UNCHANGED <<inputs, outdir, made_outdir, n_opened, fname_args, grid,
                   ds_open, todo, param_img, data, calc_called, cells_written>>

\* reshuffle, lines 83-84: the output directory is made unless it exists
MakeOutdir ==
    /\ pc = "makedirs"
    /\ outdir' = TRUE
    /\ made_outdir' = ~outdir
    /\ pc' = "read_open"
    /\ UNCHANGED <<inputs, n_opened, err, fname_args, grid, ds_open, todo,
                   param_img, data, calc_called, cells_written>>

\* reshuffle line 90 and C3SImg.read lines 181-189: the file of startdate is
\* opened and the parameters to loop over are chosen
ReadOpen ==
    /\ pc = "read_open"
    /\ \E f \in FilesFor(fname_args, startdate) :
          todo' = IF Normalise(parameters)[1] = NoneParam
                  THEN f.vars ELSE Normalise(parameters)
    /\ ds_open' = ds_open + 1
    /\ n_opened' = n_opened + 1
    /\ param_img' = {}
    /\ pc' = "read_loop"
    /\ UNCHANGED <<inputs, outdir, made_outdir, err, fname_args, grid, data,
                   calc_called, cells_written>>

\* C3SImg.read line 181: there is no file of that name, Dataset raises
ReadOpenFails ==
    /\ pc = "read_open"
    /\ FilesFor(fname_args, startdate) = {}
    /\ err' = "FileNotFound"
    /\ pc' = "failed"
    /\ UNCHANGED <<inputs, outdir, made_outdir, n_opened, fname_args, grid,
                   ds_open, todo, param_img, data, calc_called, cells_written>>

\* C3SImg.read line 192: a coordinate name is passed over
ReadSkipCoordinate ==
    /\ pc = "read_loop"
    /\ todo # << >>
    /\ Head(todo) \in Coordinates
    /\ todo' = Tail(todo)
    /\ UNCHANGED <<inputs, outdir, made_outdir, n_opened, pc, err, fname_args,
                   grid, ds_open, param_img, data, calc_called, cells_written>>

\* a lookup that passes over a name the file does not hold
ReadMissingVariable_Skip ==
    /\ pc = "read_loop"
    /\ todo # << >>
    /\ Head(todo) \notin Coordinates
    /\ \E f \in FilesFor(fname_args, startdate) : Head(todo) \notin Range(f.vars)
    /\ todo' = Tail(todo)
    /\ UNCHANGED <<inputs, outdir, made_outdir, n_opened, pc, err, fname_args,
                   grid, ds_open, param_img, data, calc_called, cells_written>>

\* C3SImg.read line 195: ds.variables[param] raises KeyError for a name the
\* file does not hold; the exception leaves read and reshuffle, ds.close()
\* (line 208) is not reached
ReadMissingVariable ==
    /\ pc = "read_loop"
    /\ todo # << >>
    /\ Head(todo) \notin Coordinates
    /\ \E f \in FilesFor(fname_args, startdate) : Head(todo) \notin Range(f.vars)
    /\ err' = "MissingVariable"
    /\ pc' = "failed"
    /\ UNCHANGED <<inputs, outdir, made_outdir, n_opened, fname_args, grid,
                   ds_open, todo, param_img, data, calc_called, cells_written>>

\* C3SImg.read lines 195-202: the first time slice of the variable is taken
ReadVariable ==
    /\ pc = "read_loop"
    /\ todo # << >>
    /\ Head(todo) \notin Coordinates
    /\ \E f \in FilesFor(fname_args, startdate) :
          /\ Head(todo) \in Range(f.vars)
          /\ param_img' =
                { e \in param_img : e.param # Head(todo) } \cup
                { [param |-> Head(todo), slice |-> f.name.datetime] }
    /\ todo' = Tail(todo)
    /\ UNCHANGED <<inputs, outdir, made_outdir, n_opened, pc, err, fname_args,
                   grid, ds_open, data, calc_called, cells_written>>

\* C3SImg.read lines 205-208: global attributes, then ds.close()
ReadClose ==
    /\ pc = "read_loop"
    /\ todo = << >>
    /\ ds_open' = ds_open - 1
    /\ pc' = "read_return"
    /\ UNCHANGED <<inputs, outdir, made_outdir, n_opened, err, fname_args,
                   grid, todo, param_img, data, calc_called, cells_written>>

\* C3SImg.read lines 210-212 (array_1D), reshuffle line 90: data = Image
ReadReturn ==
    /\ pc = "read_return"
    /\ data' = [present |-> TRUE, img |-> param_img]
    /\ pc' = "calc"
    /\ UNCHANGED <<inputs, outdir, made_outdir, n_opened, err, fname_args,
                   grid, ds_open, todo, param_img, calc_called, cells_written>>

\* reshuffle lines 94-99: Img2Ts is built and reshuffler.calc() runs.  calc is
\* code of the repurpose package: it ends or raises, and may have written
\* Cell files either way
Calc ==
    /\ pc = "calc"
    /\ calc_called' = TRUE
    /\ \E ok \in BOOLEAN, written \in BOOLEAN :
          /\ pc' = IF ok THEN "done" ELSE "failed"
          /\ err' = IF ok THEN "none" ELSE "CalcError"
          /\ cells_written' = written
    /\ UNCHANGED <<inputs, outdir, made_outdir, n_opened, fname_args, grid,
                   ds_open, todo, param_img, data>>

NextB ==
    \/ SelectGrid
    \/ StackResolved
    \/ StackNoMatch
    \/ MakeOutdir
    \/ ReadOpen
    \/ ReadOpenFails
    \/ ReadSkipCoordinate
    \/ ReadMissingVariable
    \/ ReadVariable
    \/ ReadClose
    \/ ReadReturn
    \/ Calc

\* the state as reshuffle is entered
Init == IdleA /\ InitB

Next == NextB

Spec == Init /\ [][Next]_vars


IdleB ==
    /\ tree = << >>
    /\ parameters = [islist |-> TRUE, items |-> << >>]
    /\ land_points = FALSE
    /\ startdate = NoDate
    /\ outdir = FALSE
    /\ made_outdir = FALSE
    /\ n_opened = 0
    /\ pc = "idle"
    /\ err = "none"
    /\ fname_args = NoArgs
    /\ grid = "none"
    /\ ds_open = 0
    /\ todo = << >>
    /\ param_img = {}
    /\ data = NoImage
    /\ calc_called = FALSE
    /\ cells_written = FALSE

\* the state as tstamps_for_daterange is entered
InitDaterange == InitA /\ IdleB

SpecDaterange == InitDaterange /\ [][NextA]_vars

(***************************************************************************)
(* The resolution steps as the specification words them, stated on day     *)
(* numbers and month numbers rather than by the date arithmetic above      *)
(***************************************************************************)
RECURSIVE DaysBeforeYear(_)
DaysBeforeYear(y) ==
    IF y <= 1990 THEN 0
    ELSE DaysBeforeYear(y - 1) + (IF IsLeap(y - 1) THEN 366 ELSE 365)

RECURSIVE DaysBeforeMonth(_, _)
DaysBeforeMonth(y, m) ==
    IF m <= 1 THEN 0 ELSE DaysBeforeMonth(y, m - 1) + DaysInMonth(y, m - 1)

\* number of the day, counted from 1990-01-01
Ord(dt) == DaysBeforeYear(dt.y) + DaysBeforeMonth(dt.y, dt.m) + dt.d

\* number of the minute, counted from 1990-01-01 00:00
Stamp(dt) == Ord(dt) * 1440 + dt.t

\* number of the month, counted from year 0
MonthIdx(dt) == dt.y * 12 + dt.m - 1

MonthOfIdx(i) == ((i % 12) + 1)
YearOfIdx(i) == i \div 12

ValidDate(dt) == dt.m \in 1..12 /\ dt.d \in 1..DaysInMonth(dt.y, dt.m)

\* b is a plus one step of the resolution
IsStepOf(res, a, b) ==
    /\ ValidDate(b)
    /\ res = "DAILY" => Stamp(b) = Stamp(a) + 1440
    /\ res = "DEKADAL" => Stamp(b) = Stamp(a) + 10 * 1440
    /\ res = "MONTHLY" => /\ MonthIdx(b) = MonthIdx(a) + 1
                          /\ b.d = Min(a.d, DaysInMonth(b.y, b.m))
                          /\ b.t = a.t

\* a plus one step of the resolution lies after e
StepExceeds(res, a, e) ==
    /\ res = "DAILY" => Stamp(a) + 1440 > Stamp(e)
    /\ res = "DEKADAL" => Stamp(a) + 10 * 1440 > Stamp(e)
    /\ res = "MONTHLY" =>
          \/ MonthIdx(a) + 1 > MonthIdx(e)
          \/ /\ MonthIdx(a) + 1 = MonthIdx(e)
             /\ Min(a.d, DaysInMonth(e.y, e.m)) > e.d
          \/ /\ MonthIdx(a) + 1 = MonthIdx(e)
             /\ Min(a.d, DaysInMonth(e.y, e.m)) = e.d
             /\ a.t > e.t

\* the day of the month k calendar-month steps after s
RECURSIVE ClippedDay(_, _)
ClippedDay(s, k) ==
    IF k = 0 THEN s.d
    ELSE Min(ClippedDay(s, k - 1),
             DaysInMonth(YearOfIdx(MonthIdx(s) + k), MonthOfIdx(MonthIdx(s) + k)))

\* e is some whole number of steps after s
WholeSteps(res, s, e) ==
    /\ Stamp(s) <= Stamp(e)
    /\ res = "DAILY" => (Stamp(e) - Stamp(s)) % 1440 = 0
    /\ res = "DEKADAL" => (Stamp(e) - Stamp(s)) % (10 * 1440) = 0
    /\ res = "MONTHLY" => /\ e.d = ClippedDay(s, MonthIdx(e) - MonthIdx(s))
                          /\ e.t = s.t

Last(seq) == seq[Len(seq)]

\* C1: for a date range with start <= end the returned sequence begins with
\* start, is strictly increasing, and every later element is the one before
\* it plus one step (one day, ten days, one calendar month).
C1_StartsAndSteps ==
    (tpc = "returned" /\ DateLE(start_date, end_date)) =>
        /\ Len(timestamps) >= 1
        /\ timestamps[1] = start_date
        /\ \A i \in 1..(Len(timestamps) - 1) :
              /\ Stamp(timestamps[i]) < Stamp(timestamps[i + 1])
              /\ DateLT(timestamps[i], timestamps[i + 1])
              /\ IsStepOf(temp_res, timestamps[i], timestamps[i + 1])

\* a monthly range from the 31st whose steps are clipped to shorter months
C1_Witness ==
    /\ tpc = "returned"
    /\ temp_res = "MONTHLY"
    /\ start_date = DateTime(1992, 1, 31, 750)
    /\ Len(timestamps) >= 3
    /\ timestamps[2] = DateTime(1992, 2, 29, 750)
    /\ timestamps[3] = DateTime(1992, 3, 29, 750)

\* C2: for a date range with start <= end no returned element lies after
\* end, one more step from the last element lies after end, end is the last
\* element whenever it is a whole number of steps from start, and MONTHLY
\* 1991-01-15..1991-04-15 gives exactly 01-15, 02-15, 03-15, 04-15.
C2_UpToEnd ==
    (tpc = "returned" /\ DateLE(start_date, end_date)) =>
        /\ \A i \in 1..Len(timestamps) : Stamp(timestamps[i]) <= Stamp(end_date)
        /\ StepExceeds(temp_res, Last(timestamps), end_date)
        /\ WholeSteps(temp_res, start_date, end_date) => Last(timestamps) = end_date
        /\ ( /\ temp_res = "MONTHLY"
             /\ start_date = Date(1991, 1, 15)
             /\ end_date = Date(1991, 4, 15) ) =>
               timestamps = << Date(1991, 1, 15), Date(1991, 2, 15),
                               Date(1991, 3, 15), Date(1991, 4, 15) >>

\* the monthly scenario has returned, its end date included
C2_Witness ==
    /\ tpc = "returned"
    /\ temp_res = "MONTHLY"
    /\ start_date = Date(1991, 1, 15)
    /\ end_date = Date(1991, 4, 15)
    /\ Len(timestamps) = 4
    /\ Last(timestamps) = end_date

(***************************************************************************)
(* Properties of a reshuffle run                                           *)
(***************************************************************************)
\* the variable names the caller asks for; none when all variables are read
RequestedNames ==
    IF Normalise(parameters)[1] = NoneParam THEN {}
    ELSE Range(Normalise(parameters))

\* the files of the tree that fit the filename template
SourceFiles == { f \in Range(tree) : Parse(f.name) # NoArgs }

\* some requested name is in no source file
AbsentEverywhere ==
    \E p \in RequestedNames : \A f \in SourceFiles : p \notin Range(f.vars)

\* the file of the start date exists and lacks some requested name
AbsentInStartFile ==
    \E f \in FilesFor(ParseFilename(tree), startdate) :
        \E p \in RequestedNames : p \notin Range(f.vars)

\* C5: a missing source file of a timestamp, the start timestamp included,
\* does not abort the run.
C5_MissingFileNotFatal ==
    (fname_args # NoArgs /\ FilesFor(fname_args, startdate) = {}) => pc # "failed"

NoFileFits == \A i \in 1..Len(tree) : Parse(tree[i].name) = NoArgs

\* C9: if no file of the tree fits the template the stack fails with
\* NoMatchingFile and the run stops there: no image is read, the output
\* directory is not made, no Cell file is written; if a file fits, the fields
\* are those of the first such file with the datetime left as placeholder.
C9_TemplateResolution ==
    pc \notin {"start", "stack"} =>
        /\ NoFileFits =>
              /\ pc = "failed"
              /\ err = "NoMatchingFile"
              /\ fname_args = NoArgs
              /\ n_opened = 0
              /\ ds_open = 0
              /\ ~data.present
              /\ ~made_outdir
              /\ ~calc_called
              /\ ~cells_written
        /\ ~NoFileFits =>
              /\ err # "NoMatchingFile"
              /\ \E i \in 1..Len(tree) :
                    /\ Parse(tree[i].name) # NoArgs
                    /\ \A j \in 1..(i - 1) : Parse(tree[j].name) = NoArgs
                    /\ fname_args.datetime = Placeholder
                    /\ fname_args =
                          [Parse(tree[i].name) EXCEPT !.datetime = Placeholder]

\* a tree that holds files, none of which fits, has stopped the run
C9_Witness ==
    /\ Len(tree) >= 2
    /\ NoFileFits
    /\ pc = "failed"
    /\ err = "NoMatchingFile"
    /\ ~outdir

\* C10: outside an image read no source file handle is open, whichever way
\* the read was left.
C10_HandleReleased ==
    pc \notin {"read_loop"} => ds_open = 0

=============================================================================
